---- MODULE Spec2Model ----
(***************************************************************************)
(* ExplainCLI: the project indexer (services/ProjectIndexer.ts) and the    *)
(* keyword-driven execution tracer (services/CodeTracer.ts).               *)
(*                                                                         *)
(* Texts (questions, file contents, paths) are TLA+ strings handled        *)
(* character by character, so that substring tests, lower-casing, the      *)
(* import patterns and the path arithmetic are computed as the code        *)
(* computes them.                                                          *)
(***************************************************************************)
EXTENDS Integers, Sequences, FiniteSets, TLC

VARIABLES
  \* ---- inputs of one traceExecutionPath(question, project) call
  question,     \* the question text
  project,      \* the IndexedProject handed to the tracer
  disk,         \* the file system at trace time: full path -> text or Unreadable
  cwd,          \* process.cwd()
  \* ---- state of the call
  pc,           \* position in traceExecutionPath
  keywords,     \* const keywords
  steps,        \* const steps (the array every traceFromFile call pushes to)
  ep,           \* position of the for..of loop over project.entryPoints
  visited,      \* the visited set of the current entry point
  stack,        \* the active traceFromFile calls, innermost last
  relevantFiles,\* the fallback's selected files
  fb,           \* position of the fallback loop
  result,       \* "running", "returned" or "threw"
  log,          \* history: the files entered and scanned and the imports
                \* followed, in order
  \* ---- a second call on the same CodeTracer, running interleaved
  other,        \* the locals of the call that is waiting at an await
  turn,         \* which of the two calls is running: 1 or 2
  \* ---- one indexProject(rootDir, filters) call
  config,       \* the Config the ProjectIndexer was constructed with
  ifs,          \* the file system at index time
  ipc,          \* position in indexProject
  ifiles,       \* const files of discoverFiles
  ii,           \* loop counter i of discoverFiles
  index,        \* the IndexedProject under construction
  iresult,      \* "running", "returned" or "rejected"
  onProgress,   \* whether a progress listener was passed to indexProject
  progress,     \* what the listener has been told so far
  first         \* the outcome of the earlier indexProject run over the same
                \* directory, once a second run has started

tvars == <<question, project, disk, cwd, pc, keywords, steps, ep, visited,
           stack, relevantFiles, fb, result, log, other, turn>>
ivars == <<config, ifs, ipc, ifiles, ii, index, iresult, onProgress, progress, first>>
vars == <<tvars, ivars>>

None == "<undefined>"
Unreadable == "<ENOENT>"

(***************************************************************************)
(* Strings                                                                 *)
(***************************************************************************)
Ch(s, i) == SubSeq(s, i, i)

Min(a, b) == IF a < b THEN a ELSE b
Max(a, b) == IF a > b THEN a ELSE b

UpperChars == "ABCDEFGHIJKLMNOPQRSTUVWXYZ"
LowerChars == "abcdefghijklmnopqrstuvwxyz"

LowerMap ==
  [c \in {Ch(UpperChars, k) : k \in 1..26} |->
     Ch(LowerChars, CHOOSE k \in 1..26 : Ch(UpperChars, k) = c)]

LowerCh(c) == IF c \in DOMAIN LowerMap THEN LowerMap[c] ELSE c

RECURSIVE ToLowerFrom(_, _)
ToLowerFrom(s, i) ==
  IF i > Len(s) THEN "" ELSE LowerCh(Ch(s, i)) \o ToLowerFrom(s, i + 1)

\* String.prototype.toLowerCase
ToLowerCase(s) == ToLowerFrom(s, 1)

\* String.prototype.includes
Includes(s, sub) ==
  \E i \in 1..(Len(s) - Len(sub) + 1) : SubSeq(s, i, i + Len(sub) - 1) = sub

\* String.prototype.startsWith
StartsWith(s, pre) == Len(pre) <= Len(s) /\ SubSeq(s, 1, Len(pre)) = pre

\* \s of the regular expressions
IsWs(c) == c \in {" ", "\t", "\n"}
IsQuote(c) == c \in {"'", "\""}

RECURSIVE SplitOnFrom(_, _, _, _, _)
SplitOnFrom(s, sep, i, cur, acc) ==
  IF i > Len(s) THEN Append(acc, cur)
  ELSE IF Ch(s, i) = sep THEN SplitOnFrom(s, sep, i + 1, "", Append(acc, cur))
  ELSE SplitOnFrom(s, sep, i + 1, cur \o Ch(s, i), acc)

\* content.split('\n')
SplitLines(content) == SplitOnFrom(content, "\n", 1, "", <<>>)

RECURSIVE SplitWsFrom(_, _, _, _)
SplitWsFrom(s, i, cur, acc) ==
  IF i > Len(s) THEN Append(acc, cur)
  ELSE IF IsWs(Ch(s, i))
       THEN IF i > 1 /\ IsWs(Ch(s, i - 1))
            THEN SplitWsFrom(s, i + 1, cur, acc)
            ELSE SplitWsFrom(s, i + 1, "", Append(acc, cur))
       ELSE SplitWsFrom(s, i + 1, cur \o Ch(s, i), acc)

\* s.split(/\s+/)
SplitWs(s) == SplitWsFrom(s, 1, "", <<>>)

RECURSIVE RemoveCharsFrom(_, _, _)
RemoveCharsFrom(s, cs, i) ==
  IF i > Len(s) THEN ""
  ELSE (IF Ch(s, i) \in cs THEN "" ELSE Ch(s, i)) \o RemoveCharsFrom(s, cs, i + 1)

RECURSIVE JoinFrom(_, _, _)
JoinFrom(seq, sep, i) ==
  IF i > Len(seq) THEN ""
  ELSE IF i = Len(seq) THEN seq[i]
  ELSE seq[i] \o sep \o JoinFrom(seq, sep, i + 1)

\* Array.prototype.join
Join(seq, sep) == JoinFrom(seq, sep, 1)

RECURSIVE Flatten(_)
Flatten(seqs) == IF seqs = <<>> THEN <<>> ELSE Head(seqs) \o Flatten(Tail(seqs))

Range(seq) == {seq[i] : i \in DOMAIN seq}

(***************************************************************************)
(* node:path, on POSIX paths                                               *)
(***************************************************************************)
RECURSIVE NormSegs(_, _)
NormSegs(segs, acc) ==
  IF segs = <<>> THEN acc
  ELSE LET h == Head(segs) IN
       IF h = "" \/ h = "." THEN NormSegs(Tail(segs), acc)
       ELSE IF h = ".."
            THEN NormSegs(Tail(segs),
                          IF acc = <<>> THEN acc ELSE SubSeq(acc, 1, Len(acc) - 1))
            ELSE NormSegs(Tail(segs), Append(acc, h))

\* the segments of an absolute path, "." and ".." resolved
AbsSegs(p) == NormSegs(SplitOnFrom(p, "/", 1, "", <<>>), <<>>)

AbsPath(segs) == "/" \o Join(segs, "/")

IsAbsolute(p) == StartsWith(p, "/")

\* path.resolve(from, to) for an absolute `from`
PathResolve(from, to) ==
  IF IsAbsolute(to) THEN AbsPath(AbsSegs(to))
  ELSE AbsPath(AbsSegs(from \o "/" \o to))

\* path.join(a, b) for an absolute a
PathJoin(a, b) == AbsPath(AbsSegs(a \o "/" \o b))

\* path.dirname of an absolute path
PathDirname(p) ==
  LET segs == AbsSegs(p) IN
  IF segs = <<>> THEN "/" ELSE AbsPath(SubSeq(segs, 1, Len(segs) - 1))

\* path.basename
PathBasename(p) ==
  LET segs == SplitOnFrom(p, "/", 1, "", <<>>) IN segs[Len(segs)]

\* path.extname: from the last "." of the basename, unless it is its first char
PathExtname(p) ==
  LET b == PathBasename(p)
      dots == {i \in 1..Len(b) : Ch(b, i) = "."}
      last == CHOOSE i \in dots : \A j \in dots : j <= i
  IN IF dots = {} \/ last = 1 THEN "" ELSE SubSeq(b, last, Len(b))

RECURSIVE CommonPrefixLen(_, _)
CommonPrefixLen(a, b) ==
  IF a = <<>> \/ b = <<>> \/ Head(a) # Head(b) THEN 0
  ELSE 1 + CommonPrefixLen(Tail(a), Tail(b))

\* path.relative(from, to): both are resolved against process.cwd() first
PathRelative(from, to) ==
  LET f == AbsSegs(PathResolve(cwd, from))
      t == AbsSegs(PathResolve(cwd, to))
      n == CommonPrefixLen(f, t)
      ups == [i \in 1..(Len(f) - n) |-> ".."]
  IN Join(ups \o SubSeq(t, n + 1, Len(t)), "/")

(***************************************************************************)
(* CodeTracer: the pure helpers                                            *)
(***************************************************************************)
commonWords ==
  {"where", "is", "the", "how", "what", "when", "why", "does",
   "do", "in", "of", "a", "an", "to", "from", "with", "for",
   "implemented", "used", "works", "located", "defined"}

RECURSIVE KeepKeywords(_)
KeepKeywords(words) ==
  IF words = <<>> THEN <<>>
  ELSE (IF Len(Head(words)) > 2 /\ Head(words) \notin commonWords
        THEN <<Head(words)>> ELSE <<>>) \o KeepKeywords(Tail(words))

\* CodeTracer.extractKeywords
extractKeywords(q) ==
  KeepKeywords(SplitWs(RemoveCharsFrom(ToLowerCase(q), {"?", ".", ",", "!"}, 1)))

\* the first position >= i of s that holds no white space (Len(s) + 1 if none)
SkipWs(s, i) ==
  LET stops == {j \in i..Len(s) : ~IsWs(Ch(s, j))} IN
  IF stops = {} THEN Len(s) + 1 ELSE CHOOSE j \in stops : \A k \in stops : j <= k

NoMatch == [ok |-> FALSE, text |-> "", close |-> 0]

\* ['"]([^'"]+)['"] at position q of s: whether it matches, the captured text
\* and the position of the closing quote
QuotedAt(s, q) ==
  LET closes == {r \in (q + 1)..Len(s) : IsQuote(Ch(s, r))}
      r == CHOOSE x \in closes : \A y \in closes : x <= y
  IN IF q <= Len(s) /\ IsQuote(Ch(s, q)) /\ closes # {} /\ r > q + 1
     THEN [ok |-> TRUE, text |-> SubSeq(s, q + 1, r - 1), close |-> r]
     ELSE NoMatch

\* from\s+['"]([^'"]+)['"] at position p of s
FromAt(s, p) ==
  LET q == SkipWs(s, p + 4) IN
  IF p + 3 <= Len(s) /\ SubSeq(s, p, p + 3) = "from" /\ q > p + 4
  THEN QuotedAt(s, q) ELSE NoMatch

\* line.match(/import\s+.*\s+from\s+['"]([^'"]+)['"]/): group 1, or None.
\* The leftmost "import" that has a match wins, and the greedy .* takes the
\* last "from" that completes the pattern.
ImportMatch(line) ==
  LET n == Len(line)
      Froms(i) == {p \in (i + 8)..n : IsWs(Ch(line, p - 1)) /\ FromAt(line, p).ok}
      starts == {i \in 1..n : /\ i + 6 <= n
                              /\ SubSeq(line, i, i + 5) = "import"
                              /\ IsWs(Ch(line, i + 6))
                              /\ Froms(i) # {}}
      i0 == CHOOSE i \in starts : \A j \in starts : i <= j
      p0 == CHOOSE p \in Froms(i0) : \A r \in Froms(i0) : r <= p
  IN IF starts = {} THEN None ELSE FromAt(line, p0).text

\* require\s*\(\s*['"]([^'"]+)['"]\s*\) at position i of s
RequireAt(s, i) ==
  LET j == SkipWs(s, i + 7)
      q == SkipWs(s, j + 1)
      m == QuotedAt(s, q)
  IN IF /\ i + 6 <= Len(s) /\ SubSeq(s, i, i + 6) = "require"
        /\ j <= Len(s) /\ Ch(s, j) = "("
        /\ m.ok
        /\ LET k == SkipWs(s, m.close + 1) IN k <= Len(s) /\ Ch(s, k) = ")"
     THEN m ELSE NoMatch

\* line.match(/require\s*\(\s*['"]([^'"]+)['"]\s*\)/): group 1, or None
RequireMatch(line) ==
  LET starts == {i \in 1..Len(line) : RequireAt(line, i).ok}
      i0 == CHOOSE i \in starts : \A j \in starts : i <= j
  IN IF starts = {} THEN None ELSE RequireAt(line, i0).text

RECURSIVE findImportsFrom(_, _)
findImportsFrom(lines, i) ==
  IF i > Len(lines) THEN <<>>
  ELSE LET im == ImportMatch(lines[i])
           rq == RequireMatch(lines[i])
       IN (IF im # None THEN <<im>> ELSE <<>>)
          \o (IF rq # None THEN <<rq>> ELSE <<>>)
          \o findImportsFrom(lines, i + 1)

\* CodeTracer.findImports
findImports(lines) == findImportsFrom(lines, 1)

\* faulty variant: every import counts as relevant
followEveryImport(importPath, kws) == TRUE

\* CodeTracer.importMatchesKeywords
importMatchesKeywords(importPath, kws) ==
  LET lowerImport == ToLowerCase(importPath) IN
  \E k \in DOMAIN kws : Includes(lowerImport, ToLowerCase(kws[k]))

\* faulty variant: file.content used without the || '' default
contentUnguarded(file) == file.content

\* (file.content || '') of fileMatchesKeywords
contentOrEmpty(file) == IF file.content = None THEN "" ELSE file.content

\* CodeTracer.fileMatchesKeywords
fileMatchesKeywords(file, kws) ==
  LET lowerPath == ToLowerCase(file.path)
      lowerContent == ToLowerCase(contentOrEmpty(file))
  IN \E k \in DOMAIN kws :
       LET lower == ToLowerCase(kws[k]) IN
       Includes(lowerPath, lower) \/ Includes(lowerContent, lower)

extensions ==
  <<"", ".ts", ".tsx", ".js", ".jsx", "/index.ts", "/index.tsx", "/index.js", "/index.jsx">>

\* faulty variant: every import target is resolved against the importing file
anyImportIsRelative(importPath) == TRUE

\* resolveImportPath, line 225: "Handle relative imports"
isRelativeImport(importPath) ==
  StartsWith(importPath, "./") \/ StartsWith(importPath, "../")

\* CodeTracer.resolveImportPath
resolveImportPath(importPath, fromFile, proj) ==
  IF isRelativeImport(importPath)
  THEN LET dir == PathDirname(fromFile)
           resolved == PathResolve(dir, importPath)
           known == {PathJoin(proj.root, proj.files[i].path) : i \in DOMAIN proj.files}
           hits == {e \in DOMAIN extensions : (resolved \o extensions[e]) \in known}
           e0 == CHOOSE e \in hits : \A x \in hits : e <= x
       IN IF hits = {} THEN None ELSE resolved \o extensions[e0]
  ELSE None

\* faulty variant: a line counts as relevant without any keyword in it
everyLineRelevant(line, kws) == TRUE

\* the keyword test of extractRelevantSpans: does any keyword occur in the line
lineIsRelevant(line, kws) ==
  LET lowerLine == ToLowerCase(line) IN
  \E k \in DOMAIN kws : Includes(lowerLine, ToLowerCase(kws[k]))

\* faulty variant: the snippet starts at the matched line
startAtMatch(i) == i

\* extractRelevantSpans, line 148 (i is the 0-based position of the line)
startLineOf(i) == Max(0, i - 2)

RECURSIVE spansFrom(_, _, _, _, _)
spansFrom(lines, kws, filePath, i, acc) ==
  IF i >= Len(lines) THEN acc
  ELSE IF lineIsRelevant(lines[i + 1], kws)
       THEN LET startLine == startLineOf(i)
                endLine == Min(Len(lines) - 1, i + 5)
            IN spansFrom(lines, kws, filePath, i + 1,
                 Append(acc, [index |-> Len(acc),
                              file |-> PathRelative(cwd, filePath),
                              lineRange |-> <<startLine + 1, endLine + 1>>,
                              code |-> Join(SubSeq(lines, startLine + 1, endLine + 1), "\n"),
                              line |-> i + 1,         \* history: the matched line
                              src |-> filePath]))     \* history: the filePath argument
       ELSE spansFrom(lines, kws, filePath, i + 1, acc)

\* CodeTracer.extractRelevantSpans (explanation, whyRelevant and linksTo, which
\* no other part of the tracer reads, are left out of the step record)
extractRelevantSpans(content, kws, filePath) ==
  spansFrom(SplitLines(content), kws, filePath, 0, <<>>)

(***************************************************************************)
(* ProjectIndexer: the static tables                                       *)
(***************************************************************************)
langMap ==
  [e \in {".ts", ".tsx", ".js", ".jsx", ".py", ".java", ".go", ".rs", ".cpp",
          ".c", ".cs", ".rb", ".php", ".swift", ".kt"} |->
     CASE e \in {".ts", ".tsx"} -> "typescript"
       [] e \in {".js", ".jsx"} -> "javascript"
       [] e = ".py" -> "python"
       [] e = ".java" -> "java"
       [] e = ".go" -> "go"
       [] e = ".rs" -> "rust"
       [] e = ".cpp" -> "cpp"
       [] e = ".c" -> "c"
       [] e = ".cs" -> "csharp"
       [] e = ".rb" -> "ruby"
       [] e = ".php" -> "php"
       [] e = ".swift" -> "swift"
       [] e = ".kt" -> "kotlin"]

\* ProjectIndexer.getLanguageFromExt
getLanguageFromExt(ext) == IF ext \in DOMAIN langMap THEN langMap[ext] ELSE None

entryPatterns ==
  {"index.js", "index.ts", "index.tsx", "main.js", "main.ts", "main.tsx",
   "app.js", "app.ts", "app.tsx", "server.js", "server.ts",
   "__main__.py", "main.py", "app.py", "Main.java", "main.go", "main.rs"}

\* ProjectIndexer.isEntryPoint
isEntryPoint(filePath) == PathBasename(filePath) \in entryPatterns

\* content.split('\n').slice(0, 5).join('\n')
previewOf(content) ==
  LET lines == SplitLines(content) IN Join(SubSeq(lines, 1, Min(5, Len(lines))), "\n")

(***************************************************************************)
(* The projects and questions the tracer is run on                         *)
(***************************************************************************)
MaxEntryPoints == 2   \* longest project.entryPoints tried
MaxDepth == 4         \* deepest traceFromFile recursion allowed; never reached
                      \* by the code on these projects (one frame per file + 1)

Root == "/r"
Cwds == {Root, "/w"}

Questions == {"How does auth work?", "How does the App use auth?", "How is it?"}

\* a project with more keyword-matching files than the fallback scans
ManyFiles ==
  <<"auth1.ts", "auth2.ts", "auth3.ts", "auth4.ts", "auth5.ts", "main.ts", "auth6.ts">>

Layouts ==
  {<<"index.ts", "app.ts", "auth.ts">>, <<"a.ts", "b.ts">>, <<"notes.md", "auth.ts">>,
   <<"long.ts">>, <<"notes.md">>, ManyFiles}

Texts(path) ==
  CASE path = "index.ts" ->
         {"import { auth } from './auth'\nimport { App } from './app'",
          "const x = 1"}
    [] path = "app.ts" ->
         {"import { auth } from './auth'\nexport class App {}",
          "import { App } from './app'",
          "import { auth } from 'auth'\nexport class App {}"}
    [] path = "auth.ts" ->
         {"export function auth() { return verifyToken(); }",
          "const app = require('./app')\nexport function auth() {}"}
    [] path = "a.ts" -> {"import { auth } from './b.ts'"}
    [] path = "b.ts" -> {"export function auth() { return verifyToken(); }"}
    [] path = "notes.md" -> {"explain the auth flow"}
    [] path = "long.ts" ->
         {"l1\nl2\nl3\nauth()\nl5\nl6\nl7\nl8\nlet w = work\nl10\nl11"}
    [] path = "main.ts" -> {"use()"}
    [] path = "auth6.ts" -> {"export const auth = 1"}
    [] path \in {"auth1.ts", "auth2.ts", "auth3.ts", "auth4.ts", "auth5.ts"} ->
         {"export const auth = 1", "check()"}

AllPaths == UNION {Range(l) : l \in Layouts}
AllTexts == UNION {Texts(p) : p \in AllPaths}

\* the ProjectFile the indexer builds for a file holding `text`; withContent
\* is FALSE when the indexer could not read it
MkFile(path, text, withContent) ==
  LET language == getLanguageFromExt(PathExtname(path))
      loaded == withContent /\ language # None
  IN [path |-> path,
      size |-> Len(text),
      language |-> language,
      content |-> IF loaded THEN text ELSE None,
      preview |-> IF loaded THEN previewOf(text) ELSE None,
      isEntry |-> isEntryPoint(path)]

\* the sequences without repetition over S of length at most n
RECURSIVE InjSeqs(_, _)
InjSeqs(S, n) ==
  IF n = 0 THEN {<<>>}
  ELSE LET shorter == InjSeqs(S, n - 1) IN
       shorter \cup UNION {{Append(q, x) : x \in S \ Range(q)} : q \in shorter}

(***************************************************************************)
(* ProjectIndexer.indexProject as a state machine                          *)
(***************************************************************************)
DefaultMaxFileSize == 1048576   \* config.ts: MAX_FILE_SIZE defaults to 1MB
ReadThreshold == 100000         \* discoverFiles: "Read files under 100KB"

\* the ceilings tried: the default, and one set through MAX_FILE_SIZE
MaxFileSizes == {DefaultMaxFileSize, 50000}

\* an index-time file system: whether the root can be enumerated, the paths
\* globby returns, and per path what fs.stat and fs.readFile give
NoFs == [rootOk |-> TRUE, paths |-> <<>>, file |-> <<>>]

NoIndex ==
  [root |-> "", name |-> "", files |-> <<>>, entryPoints |-> <<>>,
   frameworks |-> <<>>, languages |-> {}, importGraph |-> <<>>, totalSize |-> 0]

PkgReact == "{\"dependencies\":{\"react\":\"^18.2.0\"}}"
PkgDevExpress == "{\"name\":\"x\",\"devDependencies\":{\"express\":\"4\"}}"
PkgBroken == "{\"dependencies\":{\"react\":"

\* JSON.parse on the manifests above: the dependencies and devDependencies of
\* the parsed object (name -> version), or not ok when JSON.parse throws
JSONparse(text) ==
  CASE text = PkgReact ->
         [ok |-> TRUE, dependencies |-> [n \in {"react"} |-> "^18.2.0"],
          devDependencies |-> <<>>]
    [] text = PkgDevExpress ->
         [ok |-> TRUE, dependencies |-> <<>>,
          devDependencies |-> [n \in {"express"} |-> "4"]]
    [] OTHER -> [ok |-> FALSE, dependencies |-> <<>>, devDependencies |-> <<>>]

ILayouts ==
  {<<"package.json", "index.ts", "auth.ts">>,
   <<"package.json", "requirements.txt", "main.py">>,
   <<"go.mod", "Cargo.toml", "notes.md">>}

ITexts(path) ==
  CASE path = "package.json" -> {PkgReact, PkgDevExpress, PkgBroken}
    [] path = "index.ts" ->
         {"import { auth } from './auth'\nimport { App } from './app'"}
    [] path = "auth.ts" ->
         {"export function auth() { return verifyToken(); }",
          "const app = require('./app')\nimport { x } from './x'"}
    [] path = "requirements.txt" -> {"flask"}
    [] path = "main.py" -> {"from flask import Flask\nimport os"}
    [] path = "go.mod" -> {"module x"}
    [] path = "Cargo.toml" -> {"[package]"}
    [] path = "notes.md" -> {"explain the auth flow"}

IAllTexts == UNION {ITexts(p) : p \in UNION {Range(l) : l \in ILayouts}}

\* what may be wrong with one file: fs.stat rejects (removed after the
\* enumeration), fs.readFile rejects, or its size is at the read threshold or
\* above both ceilings
IDamages(lay) ==
  {[kind |-> "none", path |-> ""]}
    \cup {[kind |-> k, path |-> p] :
            k \in {"statFails", "readFails", "big", "huge"}, p \in Range(lay)}

FileOnDisk(text, kind) ==
  [statOk |-> kind # "statFails",
   size |-> CASE kind = "big" -> ReadThreshold
              [] kind = "huge" -> 2 * DefaultMaxFileSize
              [] OTHER -> Len(text),
   text |-> IF kind \in {"none", "big", "huge"} THEN text ELSE Unreadable]

\* no earlier run
NoRun == [iresult |-> "none", index |-> NoIndex, onProgress |-> FALSE]

\* what a listener is told: the stage and the file (or stage) being worked on;
\* the percentages and counters of the event are left out
Event(stage, currentFile) == [stage |-> stage, currentFile |-> currentFile]

\* the calls of onProgress, which are made only if a listener was passed
Told(listening, sofar, events) == IF listening THEN sofar \o events ELSE sofar

\* faulty variant: discoverFiles goes on with the array of the earlier run
keepFiles(old) == old

\* discoverFiles, line 113: const files = []
freshFiles(old) == <<>>

\* indexProject(rootDir, filters, onProgress) starts on the file system fs
\* (lines 9-28), and discoverFiles runs globby (lines 105-118), which rejects
\* when the root cannot be enumerated
StartIndexing(fs, listening) ==
  /\ ifs' = fs /\ onProgress' = listening
  /\ ifiles' = freshFiles(ifiles) /\ ii' = 0
  /\ IF fs.rootOk
     THEN /\ ipc' = "discover" /\ iresult' = "running"
          /\ index' = [NoIndex EXCEPT !.root = Root, !.name = PathBasename(Root)]
          /\ progress' = Told(listening, <<>>,
                              <<Event("Discovering files...", "Discovering files..."),
                                Event("Discovering files", "")>>)
     ELSE /\ ipc' = "done" /\ iresult' = "rejected"
          /\ index' = NoIndex
          /\ progress' = Told(listening, <<>>,
                              <<Event("Discovering files...", "Discovering files...")>>)

\* indexProject is called on a directory, with or without a listener
IndexProject ==
  /\ pc = "idle" /\ ipc = "idle"
  /\ \E m \in MaxFileSizes : config' = [maxFileSize |-> m]
  /\ \E listening \in BOOLEAN :
       \/ StartIndexing([rootOk |-> FALSE, paths |-> <<>>, file |-> <<>>], listening)
       \/ \E lay \in ILayouts :
            \E text \in {t \in [Range(lay) -> IAllTexts] :
                           \A p \in Range(lay) : t[p] \in ITexts(p)},
               dmg \in IDamages(lay) :
              StartIndexing([rootOk |-> TRUE, paths |-> lay,
                             file |-> [p \in Range(lay) |->
                                         FileOnDisk(text[p],
                                                    IF dmg.path = p THEN dmg.kind
                                                    ELSE "none")]],
                            listening)
  /\ UNCHANGED <<first, tvars>>

\* indexProject is called a second time, on the same ProjectIndexer and the
\* unchanged directory, with or without a listener
IndexAgain ==
  /\ ipc = "done" /\ first = NoRun
  /\ first' = [iresult |-> iresult, index |-> index, onProgress |-> onProgress]
  /\ \E listening \in BOOLEAN : StartIndexing(ifs, listening)
  /\ UNCHANGED <<config, tvars>>

\* faulty variant: no file is too large
neverTooLarge(size, max) == FALSE

\* discoverFiles, line 126: "Skip files larger than max size"
tooLarge(size, max) == size > max

\* faulty variant: the content of every file is read
readEveryFile(language, size) == TRUE

\* discoverFiles, line 135: "Read files under 100KB"
shouldRead(language, size) == language # None /\ size < ReadThreshold

\* discoverFiles, lines 120-160: one iteration of the loop over the paths
DiscoverFile ==
  /\ ipc = "discover" /\ ii < Len(ifs.paths)
  /\ LET filePath == ifs.paths[ii + 1]
         stats == ifs.file[filePath]
         language == getLanguageFromExt(PathExtname(filePath))
         \* lines 135-141: a read that fails leaves content and preview unset
         readOk == shouldRead(language, stats.size) /\ stats.text # Unreadable
     IN IF ~stats.statOk
        THEN \* line 123: fs.stat rejects outside any try, and so does indexProject
             /\ ipc' = "done" /\ iresult' = "rejected"
             /\ UNCHANGED <<ifiles, ii, progress>>
        ELSE /\ ii' = ii + 1
             /\ IF tooLarge(stats.size, config.maxFileSize)
                THEN UNCHANGED <<ifiles, progress>>
                ELSE /\ ifiles' =
                          Append(ifiles,
                                 [path |-> filePath,
                                  size |-> stats.size,
                                  language |-> language,
                                  content |-> IF readOk THEN stats.text ELSE None,
                                  preview |-> IF readOk THEN previewOf(stats.text) ELSE None,
                                  isEntry |-> isEntryPoint(filePath)])
                     /\ progress' = Told(onProgress, progress,
                                         <<Event("Discovering files", filePath)>>)
             /\ UNCHANGED <<ipc, iresult>>
  /\ UNCHANGED <<config, ifs, index, onProgress, first, tvars>>

RECURSIVE entryPathsOf(_)
entryPathsOf(files) ==
  IF files = <<>> THEN <<>>
  ELSE (IF Head(files).isEntry THEN <<Head(files).path>> ELSE <<>>)
       \o entryPathsOf(Tail(files))

\* faulty variant: the entry points are taken from every enumerated path
entryPointsOfAllPaths(files) ==
  entryPathsOf([i \in DOMAIN ifs.paths |->
                  [path |-> ifs.paths[i], isEntry |-> isEntryPoint(ifs.paths[i])]])

\* ProjectIndexer.findEntryPoints
findEntryPoints(files) == entryPathsOf(files)

\* indexProject, lines 29-42: discoverFiles returned; the entry points
FindEntryPoints ==
  /\ ipc = "discover" /\ ii = Len(ifs.paths)
  /\ index' = [index EXCEPT !.files = ifiles, !.entryPoints = findEntryPoints(ifiles)]
  /\ ipc' = "frameworks"
  /\ progress' = Told(onProgress, progress,
                      <<Event("Discovering files", ""),
                        Event("Finding entry points...", "Finding entry points..."),
                        Event("Entry points found", "")>>)
  /\ UNCHANGED <<config, ifs, ifiles, ii, iresult, onProgress, first, tvars>>

nodeFrameworks ==
  <<[dep |-> "react", label |-> "React"], [dep |-> "vue", label |-> "Vue"],
    [dep |-> "@angular/core", label |-> "Angular"],
    [dep |-> "express", label |-> "Express"], [dep |-> "next", label |-> "Next.js"],
    [dep |-> "@nestjs/core", label |-> "NestJS"],
    [dep |-> "fastify", label |-> "Fastify"]>>

RECURSIVE labelsOf(_, _)
labelsOf(deps, table) ==
  IF table = <<>> THEN <<>>
  ELSE (IF Head(table).dep \in DOMAIN deps /\ deps[Head(table).dep] # ""
        THEN <<Head(table).label>> ELSE <<>>) \o labelsOf(deps, Tail(table))

\* { ...pkg.dependencies, ...pkg.devDependencies }
spread(a, b) ==
  [n \in DOMAIN a \cup DOMAIN b |-> IF n \in DOMAIN b THEN b[n] ELSE a[n]]

\* faulty variant: the other manifests are not looked at
noOtherManifests(files) == <<>>

\* detectFrameworks, lines 201-210: "Check for other framework indicators"
otherManifests(files) ==
  (IF \E i \in DOMAIN files : Includes(files[i].path, "requirements.txt")
   THEN <<"Python">> ELSE <<>>)
  \o (IF \E i \in DOMAIN files : files[i].path = "go.mod" THEN <<"Go">> ELSE <<>>)
  \o (IF \E i \in DOMAIN files : files[i].path = "Cargo.toml"
      THEN <<"Rust">> ELSE <<>>)

\* ProjectIndexer.detectFrameworks: the labels in the order they are added
detectFrameworks(files) ==
  LET pkgs == {i \in DOMAIN files : files[i].path = "package.json"}
      packageJson == files[CHOOSE i \in pkgs : \A j \in pkgs : i <= j]
      node == IF pkgs # {} /\ packageJson.content # None /\ packageJson.content # ""
              THEN LET pkg == JSONparse(packageJson.content) IN
                   IF pkg.ok
                   THEN labelsOf(spread(pkg.dependencies, pkg.devDependencies),
                                 nodeFrameworks)
                   ELSE <<>>
              ELSE <<>>
  IN node \o otherManifests(files)

\* indexProject, lines 51-60
DetectFrameworks ==
  /\ ipc = "frameworks"
  /\ index' = [index EXCEPT !.frameworks = detectFrameworks(index.files)]
  /\ ipc' = "languages"
  /\ progress' = Told(onProgress, progress,
                      <<Event("Detecting frameworks...", "Detecting frameworks..."),
                        Event("Frameworks detected", "")>>)
  /\ UNCHANGED <<config, ifs, ifiles, ii, iresult, onProgress, first, tvars>>

\* ProjectIndexer.detectLanguages
detectLanguages(files) == {files[i].language : i \in DOMAIN files} \ {None}

\* indexProject, lines 62-70
DetectLanguages ==
  /\ ipc = "languages"
  /\ index' = [index EXCEPT !.languages = detectLanguages(index.files)]
  /\ ipc' = "importGraph"
  /\ progress' = Told(onProgress, progress,
                      <<Event("Analyzing languages...", "Analyzing languages..."),
                        Event("Languages analyzed", "")>>)
  /\ UNCHANGED <<config, ifs, ifiles, ii, iresult, onProgress, first, tvars>>

\* the last position of the line that position a of s is on
LineEnd(s, a) ==
  LET nls == {j \in a..Len(s) : Ch(s, j) = "\n"} IN
  IF nls = {} THEN Len(s) ELSE (CHOOSE j \in nls : \A k \in nls : j <= k) - 1

\* /import\s+(?:.*\s+from\s+)?['"]([^'"]+)['"]/ at position i of s. The \s+
\* after "import" ends at a - 1 and the .* is a..b; both are greedy, so the
\* largest a and then the largest b that complete the pattern win, and only
\* when none does is the optional group dropped.
es6ImportAt(s, i) ==
  LET w == SkipWs(s, i + 6)
      FromAfter(b) == LET p == SkipWs(s, b + 1) IN
                      IF p > b + 1 THEN FromAt(s, p) ELSE NoMatch
      cands == {c \in ((i + 7)..w) \X ((i + 6)..Len(s)) :
                  /\ c[2] >= c[1] - 1 /\ c[2] <= LineEnd(s, c[1])
                  /\ FromAfter(c[2]).ok}
      best == CHOOSE c \in cands :
                \A d \in cands : d[1] < c[1] \/ (d[1] = c[1] /\ d[2] <= c[2])
  IN IF i + 5 <= Len(s) /\ SubSeq(s, i, i + 5) = "import" /\ w > i + 6
     THEN IF cands # {} THEN FromAfter(best[2]) ELSE QuotedAt(s, w)
     ELSE NoMatch

\* the maximal run of non-space characters at position i of s
WordAt(s, i) ==
  LET e == (CHOOSE j \in i..(Len(s) + 1) :
              (j > Len(s) \/ IsWs(Ch(s, j))) /\ \A k \in i..(j - 1) : ~IsWs(Ch(s, k)))
  IN IF e > i THEN [ok |-> TRUE, text |-> SubSeq(s, i, e - 1), close |-> e - 1]
     ELSE NoMatch

\* /(?:from\s+(\S+)\s+import|import\s+(\S+))/ at position i of s
pyImportAt(s, i) ==
  LET afterFrom == SkipWs(s, i + 4)
      word == WordAt(s, afterFrom)
      imp == SkipWs(s, word.close + 1)
      afterImport == SkipWs(s, i + 6)
  IN IF /\ i + 3 <= Len(s) /\ SubSeq(s, i, i + 3) = "from"
        /\ afterFrom > i + 4 /\ word.ok
        /\ imp > word.close + 1 /\ imp + 5 <= Len(s)
        /\ SubSeq(s, imp, imp + 5) = "import"
     THEN [ok |-> TRUE, text |-> word.text, close |-> imp + 5]
     ELSE IF /\ i + 5 <= Len(s) /\ SubSeq(s, i, i + 5) = "import"
             /\ afterImport > i + 6
          THEN WordAt(s, afterImport)
          ELSE NoMatch

\* regex.exec in a loop with the g flag: every match, left to right, each
\* search resuming after the previous match; kind names the pattern
RECURSIVE execAll(_, _, _)
execAll(s, kind, i) ==
  IF i > Len(s) THEN <<>>
  ELSE LET m == CASE kind = "es6" -> es6ImportAt(s, i)
                  [] kind = "require" -> RequireAt(s, i)
                  [] kind = "python" -> pyImportAt(s, i)
       IN IF m.ok THEN <<m.text>> \o execAll(s, kind, m.close + 1)
          ELSE execAll(s, kind, i + 1)

\* faulty variant: nothing is extracted
noImports(content, language) == <<>>

\* faulty variant: the require calls are collected before the import statements
requiresBeforeImports(content, language) ==
  IF language \in {"javascript", "typescript"}
  THEN execAll(content, "require", 1) \o execAll(content, "es6", 1)
  ELSE IF language = "python" THEN execAll(content, "python", 1)
  ELSE <<>>

\* ProjectIndexer.extractImports
extractImports(content, language) ==
  IF language \in {"javascript", "typescript"}
  THEN execAll(content, "es6", 1) \o execAll(content, "require", 1)
  ELSE IF language = "python" THEN execAll(content, "python", 1)
  ELSE <<>>

\* faulty variant: the result of every extraction is stored, empty or not
graphOfAllFiles(files) ==
  LET keys == {i \in DOMAIN files :
                 /\ files[i].content # None /\ files[i].content # ""
                 /\ files[i].language # None}
  IN [p \in {files[i].path : i \in keys} |->
        LET f == files[CHOOSE i \in keys : files[i].path = p] IN
        extractImports(f.content, f.language)]

\* ProjectIndexer.buildImportGraph: the Map, as a function on its keys
buildImportGraph(files) ==
  LET keys == {i \in DOMAIN files :
                 /\ files[i].content # None /\ files[i].content # ""
                 /\ files[i].language # None
                 /\ extractImports(files[i].content, files[i].language) # <<>>}
  IN [p \in {files[i].path : i \in keys} |->
        LET f == files[CHOOSE i \in keys : files[i].path = p] IN
        extractImports(f.content, f.language)]

\* indexProject, lines 72-80
BuildImportGraph ==
  /\ ipc = "importGraph"
  /\ index' = [index EXCEPT !.importGraph = buildImportGraph(index.files)]
  /\ ipc' = "return"
  /\ progress' = Told(onProgress, progress,
                      <<Event("Building dependency graph...", "Building dependency graph..."),
                        Event("Indexing complete", "")>>)
  /\ UNCHANGED <<config, ifs, ifiles, ii, iresult, onProgress, first, tvars>>

RECURSIVE sumSizes(_)
sumSizes(files) == IF files = <<>> THEN 0 ELSE Head(files).size + sumSizes(Tail(files))

\* indexProject, lines 82-93
ReturnIndex ==
  /\ ipc = "return"
  /\ index' = [index EXCEPT !.totalSize = sumSizes(index.files)]
  /\ ipc' = "done" /\ iresult' = "returned"
  /\ UNCHANGED <<config, ifs, ifiles, ii, onProgress, progress, first, tvars>>

(***************************************************************************)
(* CodeTracer.traceExecutionPath as a state machine                        *)
(***************************************************************************)
NoProject ==
  [root |-> Root, files |-> <<>>, entryPoints |-> <<>>, frameworks |-> <<>>,
   languages |-> {}, importGraph |-> <<>>]

\* the IndexedProject indexProject returns for these files (lines 84-93), with
\* the entry points in the order given
ProjectOf(files, eps) ==
  [root |-> Root, files |-> files, entryPoints |-> eps,
   frameworks |-> detectFrameworks(files),
   languages |-> detectLanguages(files),
   importGraph |-> buildImportGraph(files)]

\* the locals of a traceExecutionPath call for question q, before its first
\* statement
Locals(q, at) ==
  [question |-> q, pc |-> at, keywords |-> extractKeywords(q), steps |-> <<>>,
   ep |-> 1, visited |-> {}, stack |-> <<>>, relevantFiles |-> <<>>, fb |-> 1,
   result |-> "running", log |-> <<>>]

NoCall == Locals("", "idle")

\* a CodeTracer on which traceExecutionPath has not been called
TracerIdle ==
  /\ question = "" /\ project = NoProject /\ disk = <<>> /\ cwd = Root
  /\ pc = "idle" /\ keywords = <<>> /\ steps = <<>> /\ ep = 1 /\ visited = {}
  /\ stack = <<>> /\ relevantFiles = <<>> /\ fb = 1 /\ result = "running"
  /\ log = <<>>
  /\ other = NoCall /\ turn = 1

\* a ProjectIndexer on which indexProject has not been called
IndexerIdle ==
  /\ config = [maxFileSize |-> DefaultMaxFileSize]
  /\ ifs = NoFs /\ ipc = "idle" /\ ifiles = <<>> /\ ii = 0 /\ index = NoIndex
  /\ iresult = "running" /\ onProgress = FALSE /\ progress = <<>> /\ first = NoRun

Init == TracerIdle /\ IndexerIdle

\* what may have happened to one file of the project: the indexer could not
\* read it (no content in the index), or it cannot be read at trace time
Damages(lay) ==
  {[kind |-> "none", path |-> ""]}
    \cup {[kind |-> k, path |-> p] : k \in {"unread", "gone"}, p \in Range(lay)}

\* the files of the index of a layout holding the texts, one file damaged
FilesOf(lay, text, dmg) ==
  [i \in DOMAIN lay |->
     MkFile(lay[i], text[lay[i]], dmg # [kind |-> "unread", path |-> lay[i]])]

\* the disk at trace time: root-joined path -> text, or Unreadable
DiskOf(lay, text, dmg) ==
  LET onDisk == [i \in DOMAIN lay |->
                   IF dmg = [kind |-> "gone", path |-> lay[i]]
                   THEN Unreadable ELSE text[lay[i]]]
      full == [i \in DOMAIN lay |-> PathJoin(Root, lay[i])]
  IN [f \in Range(full) |-> onDisk[CHOOSE i \in DOMAIN lay : full[i] = f]]

\* the texts tried on a layout: every combination of the files' texts; on
\* ManyFiles the first five files all hold the keyword or all do not
TextChoices(lay) ==
  IF lay = ManyFiles
  THEN {[p \in Range(lay) |-> IF Cardinality(Texts(p)) > 1 THEN v
                              ELSE CHOOSE x \in Texts(p) : TRUE] :
          v \in Texts("auth1.ts")}
  ELSE {t \in [Range(lay) -> UNION {Texts(p) : p \in Range(lay)}] :
          \A p \in Range(lay) : t[p] \in Texts(p)}

\* the damages tried on a layout
DamagesFor(lay) ==
  IF lay = ManyFiles
  THEN {[kind |-> "none", path |-> ""], [kind |-> "unread", path |-> "auth2.ts"]}
  ELSE Damages(lay)

\* the files the entry points are taken from
EntryCandidates(lay) == IF lay = ManyFiles THEN {"main.ts"} ELSE Range(lay)

\* the questions asked about a layout
QuestionsFor(lay) ==
  IF lay = <<"notes.md">>
  THEN Questions \cup {"explain", "Where are the notes?", "Is auth.service used, really?"}
  ELSE Questions

\* traceExecutionPath is called (lines 6-11) with a question and the index of
\* one of the layouts, with entry points in any order, in which at most one
\* file is damaged
TraceExecutionPath ==
  /\ pc = "idle" /\ ipc = "idle"
  /\ \E lay \in Layouts :
       /\ \E text \in TextChoices(lay), dmg \in DamagesFor(lay) :
            LET files == FilesOf(lay, text, dmg)
                theDisk == DiskOf(lay, text, dmg)
            IN \E eps \in InjSeqs(EntryCandidates(lay), MaxEntryPoints) :
                 /\ project' = ProjectOf(files, eps)
                 /\ disk' = theDisk
       /\ \E q \in QuestionsFor(lay) : question' = q /\ keywords' = extractKeywords(q)
  /\ cwd' \in Cwds
  /\ pc' = "entries"
  /\ UNCHANGED <<steps, ep, visited, stack, relevantFiles, fb, result, log, ivars, other, turn>>

\* fs.readFile(filePath, 'utf-8'): the text, or Unreadable when it rejects
readFile(filePath) == IF filePath \in DOMAIN disk THEN disk[filePath] ELSE Unreadable

Top == stack[Len(stack)]
Pop(stk) == SubSeq(stk, 1, Len(stk) - 1)
Frame(filePath) == [file |-> filePath, imports |-> <<>>, k |-> 0]

\* traceExecutionPath, lines 14-22: the next iteration of the loop over the
\* entry points makes its own visited set and calls traceFromFile
NextEntryPoint ==
  /\ pc = "entries" /\ stack = <<>>
  /\ ep <= Len(project.entryPoints)
  /\ visited' = {}
  /\ stack' = <<Frame(PathJoin(project.root, project.entryPoints[ep]))>>
  /\ ep' = ep + 1
  /\ UNCHANGED <<question, project, disk, cwd, pc, keywords, steps,
                 relevantFiles, fb, result, log, ivars, other, turn>>

\* faulty variant: the visited guard never fires
neverVisited(filePath, vis) == FALSE

\* traceFromFile, line 53
alreadyVisited(filePath, vis) == filePath \in vis

\* faulty variant: the read error is not caught in traceFromFile but unwinds
\* every active call
unwindOnReadError(stk) == <<>>

\* traceFromFile, lines 76-78: the catch ends this call only; its callers go on
catchReadError(stk) == Pop(stk)

\* faulty variant: the spans of a file are put in front of the steps
unshiftSpans(stps, spans) == spans \o stps

\* traceFromFile, line 65: steps.push(...relevantSpans)
pushSpans(stps, spans) == stps \o spans

\* traceFromFile, lines 53-65: the visited guard, the read and the scan
TraceFromFile ==
  /\ pc = "entries" /\ stack # <<>> /\ Top.k = 0
  /\ IF alreadyVisited(Top.file, visited)
     THEN /\ stack' = Pop(stack)
          /\ UNCHANGED <<visited, steps, log>>
     ELSE /\ visited' = visited \cup {Top.file}
          /\ LET content == readFile(Top.file)
                 entered == [op |-> "enter", file |-> Top.file, ep |-> ep - 1, n |-> 0]
             IN IF content = Unreadable
                THEN /\ stack' = catchReadError(stack)
                     /\ log' = Append(log, entered)
                     /\ UNCHANGED steps
                ELSE LET relevantSpans == extractRelevantSpans(content, keywords, Top.file) IN
                     /\ steps' = pushSpans(steps, relevantSpans)
                     /\ stack' = [stack EXCEPT ![Len(stack)] =
                                    [file |-> Top.file,
                                     imports |-> findImports(SplitLines(content)),
                                     k |-> 1]]
                     /\ log' = log \o <<entered,
                                        [op |-> "scan", file |-> Top.file, ep |-> ep - 1,
                                         n |-> Len(relevantSpans)]>>
  /\ UNCHANGED <<question, project, disk, cwd, pc, keywords, ep,
                 relevantFiles, fb, result, ivars, other, turn>>

\* traceFromFile, lines 69-71: the file an import leads to, or None
followed(imp, fromFile, kws, proj) ==
  IF importMatchesKeywords(imp, kws) THEN resolveImportPath(imp, fromFile, proj) ELSE None

\* faulty variant: the loop stays on the same import
sameImportAgain(k) == k

\* traceFromFile, line 68: the for..of loop moves on to the next import
nextImport(k) == k + 1

\* traceFromFile, lines 68-75: one iteration of the loop over the imports
FollowImport ==
  /\ pc = "entries" /\ stack # <<>>
  /\ Top.k >= 1 /\ Top.k <= Len(Top.imports)
  /\ LET resolvedPath == followed(Top.imports[Top.k], Top.file, keywords, project)
         advanced == [stack EXCEPT ![Len(stack)].k = nextImport(@)]
     IN IF resolvedPath # None
        THEN /\ Len(stack) < MaxDepth
             /\ stack' = Append(advanced, Frame(resolvedPath))
             /\ log' = Append(log, [op |-> "follow", file |-> resolvedPath,
                                    ep |-> ep - 1, n |-> 0,
                                    imp |-> Top.imports[Top.k], from |-> Top.file,
                                    k |-> Top.k])
        ELSE /\ stack' = advanced
             /\ UNCHANGED log
  /\ UNCHANGED <<question, project, disk, cwd, pc, keywords, steps, ep, visited,
                 relevantFiles, fb, result, ivars, other, turn>>

\* traceFromFile: the loop over the imports is over and the call returns
ReturnFromFile ==
  /\ pc = "entries" /\ stack # <<>>
  /\ Top.k > Len(Top.imports)
  /\ stack' = Pop(stack)
  /\ UNCHANGED <<question, project, disk, cwd, pc, keywords, steps, ep, visited,
                 relevantFiles, fb, result, log, ivars, other, turn>>

RECURSIVE selectFiles(_, _, _)
selectFiles(files, kws, wantEntry) ==
  IF files = <<>> THEN <<>>
  ELSE (IF fileMatchesKeywords(Head(files), kws) /\ Head(files).isEntry = wantEntry
        THEN <<Head(files)>> ELSE <<>>) \o selectFiles(Tail(files), kws, wantEntry)

\* traceExecutionPath, lines 27-29: filter, then the stable sort that puts the
\* entry files first
relevantFilesOf(proj, kws) ==
  selectFiles(proj.files, kws, TRUE) \o selectFiles(proj.files, kws, FALSE)

\* faulty variant: every selected file is scanned
allOfThem(sorted) == sorted

\* traceExecutionPath, line 31: relevantFiles.slice(0, 5)
topFive(sorted) == SubSeq(sorted, 1, Min(5, Len(sorted)))

\* faulty variant: the sort is applied to the project's own file list
sortInPlace(files, sorted) == sorted

\* traceExecutionPath, lines 27-29: filter returns a new array, and it is that
\* array which sort reorders; the project's files stay as they were
filesAfterSort(files, sorted) == files

\* faulty variant: the fallback never runs
fallbackNever(stps) == FALSE

\* faulty variant: the fallback runs whatever the walk found
fallbackAlways(stps) == TRUE

\* traceExecutionPath, line 26
fallbackNeeded(stps) == Len(stps) = 0

\* traceExecutionPath, lines 26-31: after the last entry point
CheckFallback ==
  /\ pc = "entries" /\ stack = <<>>
  /\ ep > Len(project.entryPoints)
  /\ IF fallbackNeeded(steps)
     THEN IF \E i \in DOMAIN project.files : contentOrEmpty(project.files[i]) = None
          THEN \* undefined.toLowerCase() in fileMatchesKeywords
               /\ result' = "threw" /\ pc' = "done"
               /\ UNCHANGED <<project, relevantFiles, fb, log>>
          ELSE LET sorted == relevantFilesOf(project, keywords) IN
               /\ project' = [project EXCEPT
                                !.files = filesAfterSort(project.files, sorted)]
               /\ relevantFiles' = topFive(sorted)
               /\ fb' = 1
               /\ pc' = "fallback"
               /\ log' = Append(log, [op |-> "select", file |-> "", ep |-> 0, n |-> 0])
               /\ UNCHANGED result
     ELSE /\ pc' = "return"
          /\ UNCHANGED <<project, relevantFiles, fb, result, log>>
  /\ UNCHANGED <<question, disk, cwd, keywords, steps, ep, visited,
                 stack, ivars, other, turn>>

\* faulty variant: the fallback scans a file whether it has content or not
contentAssumed(file) == TRUE

\* traceExecutionPath, line 32: if (file.content)
hasContent(file) == file.content # None /\ file.content # ""

\* traceExecutionPath, lines 31-40: one iteration of the fallback loop
FallbackScan ==
  /\ pc = "fallback" /\ fb <= Len(relevantFiles)
  /\ LET file == relevantFiles[fb] IN
     IF hasContent(file)
     THEN LET relevantSpans == extractRelevantSpans(file.content, keywords, file.path) IN
          /\ steps' = steps \o relevantSpans
          /\ log' = Append(log, [op |-> "fallback", file |-> file.path, ep |-> 0,
                                 n |-> Len(relevantSpans)])
     ELSE UNCHANGED <<steps, log>>
  /\ fb' = fb + 1
  /\ UNCHANGED <<question, project, disk, cwd, pc, keywords, ep, visited, stack,
                 relevantFiles, result, ivars, other, turn>>

\* traceExecutionPath, line 43
Return ==
  /\ \/ pc = "return"
     \/ pc = "fallback" /\ fb > Len(relevantFiles)
  /\ pc' = "done"
  /\ result' = "returned"
  /\ UNCHANGED <<question, project, disk, cwd, keywords, steps, ep, visited,
                 stack, relevantFiles, fb, log, ivars, other, turn>>

Next ==
  \/ TraceExecutionPath
  \/ NextEntryPoint
  \/ TraceFromFile
  \/ FollowImport
  \/ ReturnFromFile
  \/ CheckFallback
  \/ FallbackScan
  \/ Return
  \/ IndexProject
  \/ IndexAgain
  \/ DiscoverFile
  \/ FindEntryPoints
  \/ DetectFrameworks
  \/ DetectLanguages
  \/ BuildImportGraph
  \/ ReturnIndex

Spec == Init /\ [][Next]_vars

(***************************************************************************)
(* Two traceExecutionPath calls on one CodeTracer, interleaved             *)
(***************************************************************************)
\* Between two awaits a call runs alone; at an await the other call may go
\* on. The running call's locals are the variables above and the waiting
\* call's locals are kept in `other`. The class has no field, so the two
\* calls share the project argument, the disk and process.cwd() only, which
\* neither writes.
ConcLayout == <<"index.ts", "app.ts", "auth.ts">>

ConcTexts ==
  {t \in [Range(ConcLayout) -> AllTexts] :
     /\ t["index.ts"] = "import { auth } from './auth'\nimport { App } from './app'"
     /\ t["app.ts"] \in {"import { auth } from './auth'\nexport class App {}",
                         "import { App } from './app'"}
     /\ t["auth.ts"] \in Texts("auth.ts")}

ConcDamages == {[kind |-> "none", path |-> ""], [kind |-> "gone", path |-> "auth.ts"]}

\* two calls with different questions are made on the same project; both
\* have computed their keywords and wait at their first await
TraceConcurrently ==
  /\ pc = "idle" /\ ipc = "idle"
  /\ \E text \in ConcTexts, dmg \in ConcDamages,
        eps \in InjSeqs({"index.ts", "app.ts"}, MaxEntryPoints) :
       /\ project' = ProjectOf(FilesOf(ConcLayout, text, dmg), eps)
       /\ disk' = DiskOf(ConcLayout, text, dmg)
  /\ \E q1, q2 \in Questions :
       /\ q1 # q2
       /\ question' = q1 /\ keywords' = extractKeywords(q1)
       /\ other' = Locals(q2, "entries")
  /\ pc' = "entries"
  /\ UNCHANGED <<cwd, steps, ep, visited, stack, relevantFiles, fb, result, log,
                 turn, ivars>>

\* faulty variant: visited is a field of the tracer, so the call that goes on
\* finds the set the other call left
leftByOther(saved, running) == running

\* traceExecutionPath, lines 10 and 15: steps and visited are locals of the
\* call, so a call that goes on finds its own
ownLocal(saved, running) == saved

\* the running call waits at an await and the other call goes on
Switch ==
  /\ pc # "idle" /\ other.pc \notin {"idle", "done"}
  /\ other' = [question |-> question, pc |-> pc, keywords |-> keywords,
               steps |-> steps, ep |-> ep, visited |-> visited, stack |-> stack,
               relevantFiles |-> relevantFiles, fb |-> fb, result |-> result,
               log |-> log]
  /\ question' = other.question /\ pc' = other.pc /\ keywords' = other.keywords
  /\ steps' = ownLocal(other.steps, steps)
  /\ ep' = other.ep
  /\ visited' = ownLocal(other.visited, visited)
  /\ stack' = other.stack /\ relevantFiles' = other.relevantFiles /\ fb' = other.fb
  /\ result' = other.result /\ log' = other.log
  /\ turn' = 3 - turn
  /\ UNCHANGED <<project, disk, cwd, ivars>>

ConcNext ==
  \/ TraceConcurrently
  \/ Switch
  \/ NextEntryPoint
  \/ TraceFromFile
  \/ FollowImport
  \/ ReturnFromFile
  \/ CheckFallback
  \/ FallbackScan
  \/ Return

ConcSpec == Init /\ [][ConcNext]_vars

(***************************************************************************)
(* What a traceExecutionPath call returns when it runs alone               *)
(***************************************************************************)
RECURSIVE walkFile(_, _, _)
RECURSIVE walkImports(_, _, _, _, _)

\* traceFromFile, lines 46-79, run to its end: acc holds the steps pushed so
\* far and the visited set
walkFile(filePath, kws, acc) ==
  IF filePath \in acc.visited THEN acc
  ELSE LET content == readFile(filePath)
           seen == acc.visited \cup {filePath}
       IN IF content = Unreadable THEN [steps |-> acc.steps, visited |-> seen]
          ELSE walkImports(findImports(SplitLines(content)), 1, filePath, kws,
                           [steps |-> acc.steps
                                        \o extractRelevantSpans(content, kws, filePath),
                            visited |-> seen])

\* traceFromFile, lines 68-75: the loop over the imports from the k-th on
walkImports(imports, k, fromFile, kws, acc) ==
  IF k > Len(imports) THEN acc
  ELSE LET resolvedPath == followed(imports[k], fromFile, kws, project) IN
       walkImports(imports, k + 1, fromFile, kws,
                   IF resolvedPath # None THEN walkFile(resolvedPath, kws, acc) ELSE acc)

\* traceExecutionPath, lines 14-23: the loop over the entry points from the
\* e-th on, each with a visited set of its own
RECURSIVE walkEntries(_, _, _)
walkEntries(e, kws, stps) ==
  IF e > Len(project.entryPoints) THEN stps
  ELSE walkEntries(e + 1, kws,
                   walkFile(PathJoin(project.root, project.entryPoints[e]), kws,
                            [steps |-> stps, visited |-> {}]).steps)

\* traceExecutionPath, lines 31-40: the fallback loop
RECURSIVE scanFiles(_, _)
scanFiles(files, kws) ==
  IF files = <<>> THEN <<>>
  ELSE (IF hasContent(Head(files))
        THEN extractRelevantSpans(Head(files).content, kws, Head(files).path)
        ELSE <<>>) \o scanFiles(Tail(files), kws)

\* traceExecutionPath, lines 6-44
traceAlone(q) ==
  LET kws == extractKeywords(q)
      walked == walkEntries(1, kws, <<>>)
      sorted == relevantFilesOf(project, kws)
  IN IF Len(walked) = 0
     THEN scanFiles(topFive(sorted), kws)
     ELSE walked

(***************************************************************************)
(* What the history says about a run                                       *)
(***************************************************************************)
LogOf(op) == {i \in DOMAIN log : log[i].op = op}

\* how often traceFromFile passed its visited guard for the file
EnterCount(f) == Cardinality({i \in LogOf("enter") : log[i].file = f})

\* how often the file was read and scanned for relevant lines by the walk
ScanCount(f) == Cardinality({i \in LogOf("scan") : log[i].file = f})

FullPaths == {PathJoin(project.root, project.files[i].path) : i \in DOMAIN project.files}

RECURSIVE WalkStepsFrom(_)
WalkStepsFrom(i) ==
  IF i > Len(log) THEN <<>>
  ELSE (IF log[i].op = "scan"
        THEN extractRelevantSpans(readFile(log[i].file), keywords, log[i].file)
        ELSE <<>>) \o WalkStepsFrom(i + 1)

\* the steps of the files the walk scanned, in the order it scanned them
WalkSteps == WalkStepsFrom(1)

RECURSIVE SumN(_)
SumN(I) == IF I = {} THEN 0
           ELSE LET i == CHOOSE x \in I : TRUE IN log[i].n + SumN(I \ {i})

\* the number of steps the entry-point-seeded walk has produced
WalkStepCount == SumN(LogOf("scan"))

\* the files the walk goes to from f: the targets of f's imports that match a
\* keyword and resolve into the project; none if f cannot be read
Edges(f) ==
  IF readFile(f) = Unreadable THEN {}
  ELSE LET imports == findImports(SplitLines(readFile(f))) IN
       {followed(imports[i], f, keywords, project) : i \in DOMAIN imports} \ {None}

RECURSIVE ReachFrom(_)
ReachFrom(S) ==
  LET more == S \cup UNION {Edges(f) : f \in S} IN
  IF more = S THEN S ELSE ReachFrom(more)

\* every file the walk from entry point e has to enter
Reach(e) == ReachFrom({PathJoin(project.root, e)})

\* the files entered during the walk of the k-th entry point
EnteredIn(k) == {log[i].file : i \in {j \in LogOf("enter") : log[j].ep = k}}

Done == pc = "done"

(***************************************************************************)
(* C1: during one traceExecutionPath call no file is read and scanned more *)
(* than once, whatever the entry points.                                   *)
(***************************************************************************)
C1_NoFileTracedTwice ==
  \A i, j \in LogOf("scan") : i # j => log[i].file # log[j].file

(***************************************************************************)
(* C2: for a.ts importing auth from './b.ts', entry point a.ts and the     *)
(* question "How does auth work?", the trace has a step in a.ts and, after *)
(* it, a step in b.ts.                                                     *)
(***************************************************************************)
C2_Scenario ==
  /\ Len(project.files) = 2
  /\ project.files[1].path = "a.ts"
  /\ project.files[1].content = "import { auth } from './b.ts'"
  /\ project.files[2].path = "b.ts"
  /\ project.files[2].content = "export function auth() { return verifyToken(); }"
  /\ \A f \in DOMAIN disk : disk[f] # Unreadable
  /\ project.entryPoints = <<"a.ts">>
  /\ question = "How does auth work?"

\* C2 as the spec states it
C2_StepInAThenB ==
  (C2_Scenario /\ Done) =>
    \E i, j \in DOMAIN steps :
      /\ i < j
      /\ steps[i].src = PathJoin(Root, "a.ts")
      /\ steps[j].src = PathJoin(Root, "b.ts")

\* C2 as the code has it: the target './b.ts' holds neither keyword ("auth",
\* "work"), so the import is not followed; the trace is the one step of the
\* import line of a.ts and b.ts contributes none
C2_OnlyTheImportLine ==
  (C2_Scenario /\ Done) =>
    /\ result = "returned"
    /\ Len(steps) = 1
    /\ steps[1].src = PathJoin(Root, "a.ts")
    /\ steps[1].lineRange = <<1, 1>>
    /\ steps[1].code = "import { auth } from './b.ts'"
    /\ \A i \in DOMAIN steps : steps[i].src # PathJoin(Root, "b.ts")

C2_Witness ==
  /\ C2_Scenario /\ Done
  /\ keywords = <<"auth", "work">>
  /\ Len(steps) = 1
  /\ EnterCount(PathJoin(Root, "a.ts")) = 1
  /\ EnterCount(PathJoin(Root, "b.ts")) = 0

(***************************************************************************)
(* C3: when indexProject discovers package.json and its JSON has "react"   *)
(* under dependencies or devDependencies, the returned frameworks contain  *)
(* "React".                                                                *)
(***************************************************************************)
HasReactManifest ==
  /\ \E i \in DOMAIN index.files : index.files[i].path = "package.json"
  /\ LET pkg == JSONparse(ifs.file["package.json"].text) IN
     pkg.ok /\ "react" \in DOMAIN pkg.dependencies \cup DOMAIN pkg.devDependencies

C3_ReactDetected ==
  (iresult = "returned" /\ HasReactManifest) => "React" \in Range(index.frameworks)

(***************************************************************************)
(* C4: in the returned sequence the index values are pairwise distinct and *)
(* increase along the sequence, also across files.                         *)
(***************************************************************************)
C4_IndexIncreasing ==
  Done => \A i, j \in DOMAIN steps : i < j => steps[i].index < steps[j].index

(***************************************************************************)
(* C5: traceExecutionPath eventually returns, whatever the project and the *)
(* question: with import cycles, self-imports and zero keywords.           *)
(***************************************************************************)
\* Every await of the call settles, so a call that can take a step takes it;
\* it then returns if (a) it can take a step whenever it has not returned and
\* (b) every step lowers a variant that cannot fall forever.
RECURSIVE LexLess(_, _)
LexLess(a, b) ==
  /\ a # <<>>
  /\ \/ Head(a) < Head(b)
     \/ Head(a) = Head(b) /\ LexLess(Tail(a), Tail(b))

RECURSIVE FrameWork(_)
FrameWork(stk) ==
  IF stk = <<>> THEN 0
  ELSE (IF Head(stk).k = 0 THEN 1
        ELSE 2 * (Len(Head(stk).imports) + 1 - Head(stk).k) + 1) + FrameWork(Tail(stk))

\* phase; entry points not yet walked; files the current walk has not entered;
\* calls and loop iterations pending on the stack; fallback files not yet scanned
Variant ==
  <<CASE pc = "idle" -> 4 [] pc = "entries" -> 3 [] pc = "fallback" -> 2
      [] pc = "return" -> 1 [] pc = "done" -> 0,
    Len(project.entryPoints) + 1 - ep,
    Len(project.files) - Cardinality(visited),
    FrameWork(stack),
    Len(relevantFiles) + 1 - fb>>

CanStep ==
  \/ pc = "entries" /\ stack = <<>>
  \/ pc = "entries" /\ stack # <<>> /\ Top.k = 0
  \/ pc = "entries" /\ stack # <<>> /\ Top.k >= 1 /\ Top.k <= Len(Top.imports)
       /\ (followed(Top.imports[Top.k], Top.file, keywords, project) = None
             \/ Len(stack) < MaxDepth)
  \/ pc = "entries" /\ stack # <<>> /\ Top.k > Len(Top.imports)
  \/ pc \in {"fallback", "return"}

C5_Terminates ==
  /\ [](pc \notin {"idle", "done"} => CanStep)
  /\ [](\A i \in DOMAIN Variant : Variant[i] >= 0)
  /\ [][tvars' # tvars => LexLess(Variant', Variant)]_vars

\* a run that ended after walking an import cycle (a self-import included)
C5_Witness ==
  /\ Done /\ result = "returned"
  /\ \E f, g \in FullPaths :
       /\ g \in Edges(f) /\ f \in Edges(g)
       /\ ScanCount(f) >= 1 /\ ScanCount(g) >= 1

(***************************************************************************)
(* C6: when a imports b and b imports a (both followed) and the walk is    *)
(* seeded from a alone, a and b are each entered at most once and the      *)
(* trace returns.                                                          *)
(***************************************************************************)
C6_Scenario ==
  /\ pc # "idle"
  /\ Len(project.entryPoints) = 1
  /\ LET a == PathJoin(project.root, project.entryPoints[1]) IN
     \E b \in FullPaths \ {a} : b \in Edges(a) /\ a \in Edges(b)

C6_CycleEnteredOnce ==
  C6_Scenario =>
    /\ \A i, j \in LogOf("enter") : i # j => log[i].file # log[j].file
    /\ Len(stack) <= Len(project.files) + 1
    /\ result # "threw"

C6_Witness ==
  /\ C6_Scenario /\ Done /\ result = "returned"
  /\ LET a == PathJoin(project.root, project.entryPoints[1]) IN
     \E b \in FullPaths \ {a} :
       /\ b \in Edges(a) /\ a \in Edges(b)
       /\ EnterCount(a) = 1 /\ EnterCount(b) = 1

(***************************************************************************)
(* C7: the fallback runs only when the walk over all entry points produced *)
(* no step; when the walk produced a step, the result is exactly the       *)
(* walk's steps.                                                           *)
(***************************************************************************)
C7_FallbackOnlyWhenWalkEmpty ==
  /\ (LogOf("select") # {} \/ LogOf("fallback") # {} \/ pc = "fallback") =>
       (WalkStepCount = 0 /\ ep > Len(project.entryPoints) /\ stack = <<>>)
  /\ (Done /\ WalkStepCount > 0) =>
       (steps = WalkSteps /\ LogOf("select") = {} /\ LogOf("fallback") = {})

\* a run whose walk found a step although the fallback would have found some too
C7_Witness ==
  /\ Done /\ result = "returned"
  /\ WalkStepCount > 0
  /\ steps = WalkSteps
  /\ \E i \in DOMAIN project.files :
       /\ fileMatchesKeywords(project.files[i], keywords)
       /\ project.files[i].content # None

(***************************************************************************)
(* C8: with no entry points the call does not throw, and every step comes  *)
(* from the fallback scan of a file whose path or content holds a keyword. *)
(***************************************************************************)
C8_EmptyEntryPointsFallback ==
  project.entryPoints = <<>> =>
    /\ result # "threw"
    /\ LogOf("enter") = {} /\ LogOf("scan") = {}
    /\ \A s \in DOMAIN steps :
         \E i \in DOMAIN project.files, j \in LogOf("fallback") :
           /\ project.files[i].path = steps[s].src
           /\ log[j].file = steps[s].src
           /\ project.files[i].content # None
           /\ fileMatchesKeywords(project.files[i], keywords)

\* a fallback run that returned steps over a project with a content-less file
C8_Witness ==
  /\ project.entryPoints = <<>>
  /\ Done /\ result = "returned"
  /\ steps # <<>>
  /\ \E i \in DOMAIN project.files : project.files[i].content = None

(***************************************************************************)
(* C9: indexProject rejects only when the root cannot be enumerated; a     *)
(* failing stat or read of one enumerated file is recovered locally.       *)
(***************************************************************************)
C9_RejectsOnlyOnRoot == iresult = "rejected" => ~ifs.rootOk

(***************************************************************************)
(* C10: when a file cannot be read during the walk, the call does not      *)
(* throw, the steps collected so far are kept, and the remaining entry     *)
(* points and the remaining imports of the entered files are still traced. *)
(***************************************************************************)
ReadFailed == \E i \in LogOf("enter") : readFile(log[i].file) = Unreadable

C10_ReadFailureIsLocal ==
  ReadFailed =>
    /\ result # "threw"
    /\ (LogOf("select") = {}) => steps = WalkSteps
    /\ Done => \A k \in DOMAIN project.entryPoints :
                 EnteredIn(k) = Reach(project.entryPoints[k])

\* a run in which a read failed, and a file imported after the unreadable one
\* and a later entry point were still scanned
C10_Witness ==
  /\ Done /\ result = "returned" /\ ReadFailed
  /\ steps # <<>>
  /\ Len(project.entryPoints) = 2
  /\ \E i \in LogOf("enter"), j \in LogOf("scan"), k \in LogOf("scan") :
       /\ readFile(log[i].file) = Unreadable
       /\ i < j /\ log[j].ep = 1 /\ log[i].ep = 1
       /\ log[k].ep = 2

(***************************************************************************)
(* C11: a question from which no keyword is extracted gives an empty step  *)
(* sequence, with or without entry points, and the call does not throw.    *)
(***************************************************************************)
C11_NoKeywordsNoSteps ==
  (pc # "idle" /\ extractKeywords(question) = <<>>) =>
    /\ steps = <<>>
    /\ result # "threw"
    /\ Done => result = "returned"

\* such a call returned after the walk scanned a file and the fallback ran
\* over a project that has files with content
C11_Witness ==
  /\ Done /\ result = "returned"
  /\ question = "How is it?" /\ keywords = <<>>
  /\ project.entryPoints # <<>>
  /\ LogOf("scan") # {} /\ LogOf("select") # {}
  /\ \E i \in DOMAIN project.files : project.files[i].content # None
  /\ steps = <<>>

(***************************************************************************)
(* C12: every returned step's file field is the path of the file it was    *)
(* scanned from relative to project.root, for the walk and the fallback    *)
(* alike, also when the root is not the working directory.                 *)
(***************************************************************************)
\* the path, relative to the root, of the file a step was scanned from: the
\* walk scans root-joined paths and the fallback the paths of project.files
RootRelative(step) ==
  {project.files[i].path : i \in {j \in DOMAIN project.files :
      \/ step.src = project.files[j].path
      \/ step.src = PathJoin(project.root, project.files[j].path)}}

C12_FileRelativeToRoot ==
  Done => \A s \in DOMAIN steps : steps[s].file \in RootRelative(steps[s])

(***************************************************************************)
(* C13: in the walk a file whose content the index holds is scanned from   *)
(* that cached content, and the disk is read only for a file without       *)
(* cached content; the steps of a file with cached content do not depend   *)
(* on what is on disk.                                                     *)
(***************************************************************************)
\* the content the index holds for the file at a root-joined path, or None
CachedContent(f) ==
  LET hits == {i \in DOMAIN project.files :
                 PathJoin(project.root, project.files[i].path) = f}
  IN IF hits = {} THEN None ELSE project.files[CHOOSE i \in hits : TRUE].content

C13_WalkUsesCachedContent ==
  \A i \in LogOf("enter") :
    LET f == log[i].file
        cached == CachedContent(f)
    IN cached # None =>
         /\ i < Len(log)
         /\ log[i + 1].op = "scan" /\ log[i + 1].file = f
         /\ log[i + 1].n = Len(extractRelevantSpans(cached, keywords, f))

(***************************************************************************)
(* C14: the walk recurses into an import target only if the target starts  *)
(* with ./ or ../, holds a keyword (whatever the case) and resolves, as    *)
(* written or with one of the fixed suffixes, to a file of project.files;  *)
(* an import that is not relative is never followed.                       *)
(***************************************************************************)
C14_OnlyRelativeKeywordImports ==
  \A i \in LogOf("follow") :
    LET target == log[i].imp
        base == PathResolve(PathDirname(log[i].from), target)
    IN /\ SubSeq(target, 1, 2) = "./" \/ SubSeq(target, 1, 3) = "../"
       /\ \E k \in DOMAIN keywords :
            Includes(ToLowerCase(target), ToLowerCase(keywords[k]))
       /\ log[i].file \in FullPaths
       /\ \E e \in DOMAIN extensions : log[i].file = base \o extensions[e]

\* a walk that followed a relative import although the file also holds an
\* import of a package whose name has a keyword and names a project file
C14_Witness ==
  /\ Done /\ result = "returned"
  /\ LogOf("follow") # {}
  /\ \E f \in FullPaths :
       /\ ScanCount(f) = 1
       /\ \E l \in DOMAIN findImports(SplitLines(readFile(f))) :
            LET imp == findImports(SplitLines(readFile(f)))[l] IN
            /\ ~isRelativeImport(imp)
            /\ importMatchesKeywords(imp, keywords)
            /\ PathResolve(PathDirname(f), imp) \o ".ts" \in FullPaths

(***************************************************************************)
(* C15: for a relevant line at 1-based position L of a file of N lines the *)
(* step's lineRange is [max(1, L-2), min(N, L+5)], hence                   *)
(* 1 <= start <= L <= end <= N, and the step's code is the lines           *)
(* start..end of the file joined by newlines.                              *)
(***************************************************************************)
\* the text a step was scanned from: the walk reads the disk, the fallback
\* takes the content of the index
ScannedText(step) ==
  IF step.src \in DOMAIN disk THEN disk[step.src]
  ELSE LET hits == {i \in DOMAIN project.files : project.files[i].path = step.src}
       IN project.files[CHOOSE i \in hits : TRUE].content

C15_LineRangeAndCode ==
  \A s \in DOMAIN steps :
    LET lines == SplitLines(ScannedText(steps[s]))
        N == Len(lines)
        L == steps[s].line
        start == steps[s].lineRange[1]
        end == steps[s].lineRange[2]
    IN /\ start = (IF L - 2 > 1 THEN L - 2 ELSE 1)
       /\ end = (IF L + 5 < N THEN L + 5 ELSE N)
       /\ 1 <= start /\ start <= L /\ L <= end /\ end <= N
       /\ steps[s].code = Join([k \in 1..(end - start + 1) |-> lines[start + k - 1]], "\n")

\* a trace with a step whose context is cut at neither end of the file and
\* one whose context is cut at the end
C15_Witness ==
  /\ Done /\ result = "returned"
  /\ \E s, t \in DOMAIN steps :
       LET N == Len(SplitLines(ScannedText(steps[s]))) IN
       /\ steps[s].src = steps[t].src
       /\ steps[s].line = 4 /\ steps[s].lineRange = <<2, 9>> /\ N = 11
       /\ steps[t].line = 9 /\ steps[t].lineRange = <<7, 11>>

(***************************************************************************)
(* What a returned index says                                              *)
(***************************************************************************)
Returned == ipc = "done" /\ iresult = "returned"

IndexedPaths == {index.files[i].path : i \in DOMAIN index.files}

\* the enumerated paths whose size on disk is above the ceiling in force
Oversized == {p \in Range(ifs.paths) : ifs.file[p].size > config.maxFileSize}

(***************************************************************************)
(* C16: no file of a returned index is larger than config.maxFileSize; a   *)
(* discovered file that is larger is absent from files, entryPoints and    *)
(* importGraph and causes no error.                                        *)
(***************************************************************************)
C16_NoFileAboveCeiling ==
  /\ Returned =>
       /\ \A i \in DOMAIN index.files : index.files[i].size <= config.maxFileSize
       /\ \A p \in Oversized :
            /\ p \notin IndexedPaths
            /\ p \notin Range(index.entryPoints)
            /\ p \notin DOMAIN index.importGraph
  /\ (ifs.rootOk /\ \A p \in Range(ifs.paths) : ifs.file[p].statOk) =>
       iresult # "rejected"

\* an index returned without an oversized file that has an entry point name
\* and imports
C16_Witness ==
  /\ Returned /\ index.files # <<>>
  /\ \E p \in Oversized :
       /\ isEntryPoint(p)
       /\ extractImports(ifs.file[p].text, getLanguageFromExt(PathExtname(p))) # <<>>

(***************************************************************************)
(* C17: a file of a returned index that has content has a language and a   *)
(* size below the content-read threshold of 100000 bytes, and that         *)
(* threshold is smaller than the max-file-size ceiling.                    *)
(***************************************************************************)
ContentOnlyForSmallClassified ==
  \A i \in DOMAIN index.files :
    index.files[i].content # None =>
      /\ index.files[i].language # None
      /\ index.files[i].size < ReadThreshold
      /\ index.files[i].size <= config.maxFileSize

C18_EntryPointsAndKeysAreFiles ==
  Returned =>
    /\ Range(index.entryPoints) \subseteq IndexedPaths
    /\ DOMAIN index.importGraph \subseteq IndexedPaths

\* an index with entry points and an import graph from which an enumerated
\* file was left out
C18_Witness ==
  /\ Returned
  /\ index.entryPoints # <<>> /\ DOMAIN index.importGraph # {}
  /\ Range(ifs.paths) \ IndexedPaths # {}

C20_InterleavedCallsAreIndependent ==
  /\ (pc = "done" /\ other.pc # "idle") =>
       (result = "returned" /\ steps = traceAlone(question))
  /\ other.pc = "done" =>
       (other.result = "returned" /\ other.steps = traceAlone(other.question))

\* both calls returned steps from the walk; the one that finished last began
\* a walk before the other had finished its own, and both walks scanned one
\* file
C20_Witness ==
  /\ pc = "done" /\ other.pc = "done"
  /\ steps # <<>> /\ other.steps # <<>> /\ steps # other.steps
  /\ LogOf("scan") # {}
  /\ \E j \in DOMAIN other.log : other.log[j].op = "scan"
  /\ \E i \in LogOf("scan"), j \in DOMAIN other.log :
       other.log[j].op = "scan" /\ other.log[j].file = log[i].file

(***************************************************************************)
(* C21: a package.json that is not valid JSON does not make indexProject   *)
(* fail: the index is returned, frameworks holds none of the Node labels,  *)
(* and the labels of requirements.txt, go.mod and Cargo.toml are still     *)
(* added.                                                                  *)
(***************************************************************************)
\* the directory has a readable package.json that JSON.parse rejects
BrokenManifest ==
  /\ ifs.rootOk /\ "package.json" \in Range(ifs.paths)
  /\ ifs.file["package.json"].text # Unreadable
  /\ ~JSONparse(ifs.file["package.json"].text).ok

NodeLabels == {nodeFrameworks[i].label : i \in DOMAIN nodeFrameworks}

C21_BrokenManifestIsHarmless ==
  (BrokenManifest /\ \A p \in Range(ifs.paths) : ifs.file[p].statOk) =>
    /\ iresult # "rejected"
    /\ Returned =>
         /\ Range(index.frameworks) \cap NodeLabels = {}
         /\ (\E p \in IndexedPaths : Includes(p, "requirements.txt")) =>
              "Python" \in Range(index.frameworks)
         /\ "go.mod" \in IndexedPaths => "Go" \in Range(index.frameworks)
         /\ "Cargo.toml" \in IndexedPaths => "Rust" \in Range(index.frameworks)

\* an index returned for a directory with a broken package.json and a
\* requirements.txt
C21_Witness ==
  /\ Returned /\ BrokenManifest
  /\ {"package.json", "requirements.txt"} \subseteq IndexedPaths
  /\ index.frameworks = <<"Python">>

(***************************************************************************)
(* C22: for a project whose only file is notes.md (no language, no         *)
(* content) and no entry points the question "explain" gives an empty      *)
(* sequence; in general, with no entry points a file without content       *)
(* contributes no step, even when its path holds a keyword.                *)
(***************************************************************************)
OnlyNotes ==
  /\ Len(project.files) = 1
  /\ project.files[1].path = "notes.md"
  /\ project.files[1].language = None /\ project.files[1].content = None
  /\ project.entryPoints = <<>>

C22_NoContentNoStep ==
  /\ (OnlyNotes /\ question = "explain" /\ Done) =>
       (result = "returned" /\ steps = <<>>)
  /\ project.entryPoints = <<>> =>
       \A i \in DOMAIN project.files :
         project.files[i].content = None =>
           /\ \A s \in DOMAIN steps : steps[s].src # project.files[i].path
           /\ \A j \in LogOf("fallback") : log[j].file # project.files[i].path

\* notes.md alone, asked about "the notes": the fallback selected the file by
\* its path and, as it has no content, returned nothing
C22_Witness ==
  /\ OnlyNotes /\ Done /\ result = "returned"
  /\ "notes" \in Range(keywords)
  /\ Len(relevantFiles) = 1 /\ relevantFiles[1].path = "notes.md"
  /\ steps = <<>>

(***************************************************************************)
(* C23: the walk follows the edges of the index's import graph: whenever   *)
(* it recurses from file F into file G, the import target that led to G    *)
(* is an element of project.importGraph[F].                                *)
(***************************************************************************)
\* the path in the index of the file at a root-joined path
IndexPathOf(f) ==
  LET hits == {i \in DOMAIN project.files :
                 PathJoin(project.root, project.files[i].path) = f}
  IN project.files[CHOOSE i \in hits : TRUE].path

InImportGraph(from, imp) ==
  /\ IndexPathOf(from) \in DOMAIN project.importGraph
  /\ imp \in Range(project.importGraph[IndexPathOf(from)])

\* C23 as the spec states it
C23_WalkFollowsImportGraph ==
  \A i \in LogOf("follow") : InImportGraph(log[i].from, log[i].imp)

\* the index holds the text that is on disk for the file, as javascript or
\* typescript
IndexedAsOnDisk(f) ==
  \E i \in DOMAIN project.files :
    /\ PathJoin(project.root, project.files[i].path) = f
    /\ project.files[i].content = readFile(f)
    /\ project.files[i].language \in {"javascript", "typescript"}

\* C23 as the code has it: the walk never reads project.importGraph; it
\* follows the targets findImports extracts from the text read from disk,
\* which are in the graph when the index holds that very text
C23_WalkFollowsImportsOnDisk ==
  \A i \in LogOf("follow") :
    /\ readFile(log[i].from) # Unreadable
    /\ log[i].imp \in Range(findImports(SplitLines(readFile(log[i].from))))
    /\ IndexedAsOnDisk(log[i].from) => InImportGraph(log[i].from, log[i].imp)

\* a walk that followed an import of a file the index has no content for,
\* and an import of a file that is in the import graph
C23_Witness ==
  /\ Done /\ result = "returned"
  /\ \E i, j \in LogOf("follow") :
       /\ CachedContent(log[i].from) = None
       /\ ~InImportGraph(log[i].from, log[i].imp)
       /\ IndexedAsOnDisk(log[j].from)
       /\ InImportGraph(log[j].from, log[j].imp)

(***************************************************************************)
(* C24: the steps come in traversal order, one per relevant line, none     *)
(* dropped: entry points are walked in the order of project.entryPoints,   *)
(* a file's steps (by ascending line) come before those of the files       *)
(* reached through its imports, imports are followed in source order and   *)
(* depth first, and a scanned file contributes as many steps as it has     *)
(* lines holding a keyword.                                                *)
(***************************************************************************)
WalkOps == LogOf("enter") \cup LogOf("scan") \cup LogOf("follow")

\* the 1-based lines of the file, as on disk, that hold a keyword
KeywordLines(f) ==
  LET lines == SplitLines(readFile(f)) IN
  {l \in DOMAIN lines :
     \E k \in DOMAIN keywords : Includes(ToLowerCase(lines[l]), ToLowerCase(keywords[k]))}

\* the steps pushed by the scan recorded at position j of the history
StepsOfScan(j) ==
  LET before == SumN({i \in LogOf("scan") : i < j}) IN
  SubSeq(steps, before + 1, before + log[j].n)

Matching ==
  {i \in DOMAIN project.files :
     \E k \in DOMAIN keywords :
       LET kw == ToLowerCase(keywords[k])
           f == project.files[i]
       IN \/ Includes(ToLowerCase(f.path), kw)
          \/ f.content # None /\ Includes(ToLowerCase(f.content), kw)}

\* file i comes before file j: entry files first, then discovery order
Before(i, j) ==
  \/ project.files[i].isEntry /\ ~project.files[j].isEntry
  \/ project.files[i].isEntry = project.files[j].isEntry /\ i < j

\* the position in project.files of the a-th selected file
PosOf(a) == CHOOSE i \in DOMAIN project.files : project.files[i] = relevantFiles[a]

\* the 1-based lines of a text that hold a keyword
KeywordLinesOf(text) ==
  LET lines == SplitLines(text) IN
  {l \in DOMAIN lines :
     \E k \in DOMAIN keywords : Includes(ToLowerCase(lines[l]), ToLowerCase(keywords[k]))}

C25_FallbackTopFive ==
  (Done /\ LogOf("select") # {}) =>
    LET sel == {PosOf(a) : a \in DOMAIN relevantFiles}
        at == CHOOSE i \in LogOf("select") : TRUE
        scanned == {a \in DOMAIN relevantFiles :
                      relevantFiles[a].content \notin {None, ""}}
    IN \* which files, and in which order
       /\ \A a \in DOMAIN relevantFiles : relevantFiles[a] \in Range(project.files)
       /\ sel \subseteq Matching
       /\ Len(relevantFiles) = (IF Cardinality(Matching) < 5
                                THEN Cardinality(Matching) ELSE 5)
       /\ Cardinality(sel) = Len(relevantFiles)
       /\ \A i \in sel, j \in Matching \ sel : Before(i, j)
       /\ \A a, b \in DOMAIN relevantFiles : a < b => Before(PosOf(a), PosOf(b))
       \* each of them scanned line by line, in that order
       /\ {log[j].file : j \in LogOf("fallback")}
            = {relevantFiles[a].path : a \in scanned}
       /\ \A i, j \in LogOf("fallback") :
            i < j => \E a, b \in scanned :
                       /\ a < b
                       /\ relevantFiles[a].path = log[i].file
                       /\ relevantFiles[b].path = log[j].file
       /\ \A j \in LogOf("fallback") :
            \E a \in scanned :
              /\ relevantFiles[a].path = log[j].file
              /\ log[j].n = Cardinality(KeywordLinesOf(relevantFiles[a].content))
              /\ {steps[s].line : s \in {t \in DOMAIN steps : steps[t].src = log[j].file}}
                   = KeywordLinesOf(relevantFiles[a].content)
       /\ Len(steps) = SumN(LogOf("fallback"))
       \* no import is followed
       /\ \A j \in WalkOps : j < at
       /\ Cardinality({steps[s].src : s \in DOMAIN steps}) <= 5

\* a fallback over six matching files: the entry file, found sixth, was
\* scanned first, five files gave steps and the last matching file was cut
C25_Witness ==
  /\ Done /\ result = "returned" /\ LogOf("select") # {}
  /\ Cardinality(Matching) > 5
  /\ Len(relevantFiles) = 5
  /\ relevantFiles[1].isEntry /\ ~project.files[1].isEntry
  /\ Cardinality({steps[s].src : s \in DOMAIN steps}) = 5
  /\ \E i \in Matching : project.files[i].content # None
                         /\ project.files[i] \notin Range(relevantFiles)

(***************************************************************************)
(* C26: importGraph has an entry for a file if and only if the file has    *)
(* content and language and extractImports of them is not empty; the       *)
(* entry is that extraction result, and no key maps to an empty sequence.  *)
(***************************************************************************)
C26_ImportGraphEntries ==
  Returned =>
    /\ \A i \in DOMAIN index.files :
         LET f == index.files[i]
             extractable == f.content # None /\ f.language # None
         IN /\ f.path \in DOMAIN index.importGraph <=>
                 (extractable /\ Len(extractImports(f.content, f.language)) > 0)
            /\ f.path \in DOMAIN index.importGraph =>
                 index.importGraph[f.path] = extractImports(f.content, f.language)
    /\ \A p \in DOMAIN index.importGraph : Len(index.importGraph[p]) > 0

\* an index with a file in the graph, a file with content and language but
\* no import, and a file without content
C26_Witness ==
  /\ Returned
  /\ \E i, j, k \in DOMAIN index.files :
       /\ index.files[i].path \in DOMAIN index.importGraph
       /\ Len(index.importGraph[index.files[i].path]) = 2
       /\ index.files[j].content # None /\ index.files[j].language # None
       /\ index.files[j].path \notin DOMAIN index.importGraph
       /\ index.files[k].content = None

(***************************************************************************)
(* C27: for a javascript or typescript file with import statements and     *)
(* require calls, extractImports returns the targets of both forms in the  *)
(* order in which they occur in the text.                                  *)
(***************************************************************************)
\* the matches of one pattern in a text, left to right, each with the
\* position it starts at
RECURSIVE matchesFrom(_, _, _)
matchesFrom(s, kind, i) ==
  IF i > Len(s) THEN <<>>
  ELSE LET m == IF kind = "es6" THEN es6ImportAt(s, i) ELSE RequireAt(s, i) IN
       IF m.ok THEN <<[at |-> i, text |-> m.text]>> \o matchesFrom(s, kind, m.close + 1)
       ELSE matchesFrom(s, kind, i + 1)

\* two sequences of matches, each ascending by position, merged by position
RECURSIVE mergeByPosition(_, _)
mergeByPosition(a, b) ==
  IF a = <<>> THEN b
  ELSE IF b = <<>> THEN a
  ELSE IF Head(a).at < Head(b).at THEN <<Head(a)>> \o mergeByPosition(Tail(a), b)
  ELSE <<Head(b)>> \o mergeByPosition(a, Tail(b))

TextsOf(matches) == [k \in DOMAIN matches |-> matches[k].text]

\* the javascript and typescript files of the index that have content
ScriptFiles ==
  {i \in DOMAIN index.files :
     /\ index.files[i].content # None
     /\ index.files[i].language \in {"javascript", "typescript"}}

\* C27 as the spec states it: one sequence in source order
C27_BothFormsInSourceOrder ==
  Returned =>
    \A i \in ScriptFiles :
      LET c == index.files[i].content IN
      extractImports(c, index.files[i].language)
        = TextsOf(mergeByPosition(matchesFrom(c, "es6", 1), matchesFrom(c, "require", 1)))

\* C27 as the code has it: the targets of all import statements in source
\* order, then the targets of all require calls in source order
C27_ImportsThenRequires ==
  Returned =>
    \A i \in ScriptFiles :
      LET c == index.files[i].content
          imports == matchesFrom(c, "es6", 1)
          requires == matchesFrom(c, "require", 1)
          found == extractImports(c, index.files[i].language)
      IN /\ found = TextsOf(imports) \o TextsOf(requires)
         /\ \A k \in 1..(Len(imports) - 1) : imports[k].at < imports[k + 1].at
         /\ \A k \in 1..(Len(requires) - 1) : requires[k].at < requires[k + 1].at
         /\ index.files[i].path \in DOMAIN index.importGraph =>
              index.importGraph[index.files[i].path] = found

\* an index of a file in which a require call stands before an import
\* statement
C27_Witness ==
  /\ Returned
  /\ \E i \in ScriptFiles :
       LET c == index.files[i].content
           imports == matchesFrom(c, "es6", 1)
           requires == matchesFrom(c, "require", 1)
       IN /\ imports # <<>> /\ requires # <<>>
          /\ requires[1].at < imports[1].at
          /\ index.importGraph[index.files[i].path]
               = <<imports[1].text, requires[1].text>>

(***************************************************************************)
(* C28: extractKeywords lowercases the question, strips only the terminal  *)
(* punctuation of the tokens, splits on white space and drops the tokens   *)
(* of length <= 2 and those of the stop list; the keywords are lowercase,  *)
(* longer than 2, not in the stop list, and keep punctuation inside a      *)
(* token ("auth.service" stays "auth.service").                            *)
(***************************************************************************)
Punctuation == {"?", ".", ",", "!"}

\* the token without the punctuation at its end
RECURSIVE StripTerminal(_)
StripTerminal(token) ==
  IF Len(token) > 0 /\ Ch(token, Len(token)) \in Punctuation
  THEN StripTerminal(SubSeq(token, 1, Len(token) - 1))
  ELSE token

\* the keywords as the claim describes them
KeywordsByToken(q) ==
  LET tokens == SplitWs(ToLowerCase(q))
      stripped == [k \in DOMAIN tokens |-> StripTerminal(tokens[k])]
      kept == {k \in DOMAIN stripped :
                 Len(stripped[k]) > 2 /\ stripped[k] \notin commonWords}
      \* the kept tokens in their order
      nth(n) == CHOOSE k \in kept : Cardinality({j \in kept : j < k}) = n - 1
  IN [n \in 1..Cardinality(kept) |-> stripped[nth(n)]]

C28_OnlyTerminalPunctuationStripped ==
  pc # "idle" =>
    /\ keywords = KeywordsByToken(question)
    /\ \A k \in DOMAIN keywords :
         /\ keywords[k] = ToLowerCase(keywords[k])
         /\ Len(keywords[k]) > 2
         /\ keywords[k] \notin commonWords

(***************************************************************************)
(* C29: traceExecutionPath leaves the project it is given unchanged:       *)
(* from the call to its return no step changes project.files (their order  *)
(* and every field of every file), entryPoints, importGraph, frameworks    *)
(* or languages, on the walk and on the fallback alike.                    *)
(***************************************************************************)
C29_ProjectUnchanged == [][pc # "idle" => project' = project]_vars

\* a returned fallback whose sort moved an entry file in front of the file
\* that is first in the project, which is still first in the project
C29_Witness ==
  /\ Done /\ result = "returned" /\ LogOf("select") # {}
  /\ steps # <<>>
  /\ Len(relevantFiles) >= 2
  /\ relevantFiles[1].isEntry
  /\ ~project.files[1].isEntry
  /\ project.files[1] \in Range(relevantFiles)

(***************************************************************************)
(* C30: if the walk from the entry points yields no step and some file of  *)
(* the project has content with a line that contains a keyword, then       *)
(* traceExecutionPath returns at least one step.                           *)
(***************************************************************************)
\* file i has content, and a line of it contains a keyword
HasKeywordLine(i) ==
  LET f == project.files[i] IN
  /\ f.content # None
  /\ \E l \in Range(SplitLines(f.content)) : \E k \in DOMAIN keywords :
       Includes(ToLowerCase(l), ToLowerCase(keywords[k]))

\* file i is one of the first five matching files, entry files first
InTopFive(i) ==
  /\ i \in Matching
  /\ Cardinality({j \in Matching : Before(j, i)}) < 5

WalkFoundNothing == Done /\ result = "returned" /\ WalkStepCount = 0

\* as stated: any file of the project
C30_AnyKeywordLineGivesAStep ==
  (WalkFoundNothing /\ \E i \in DOMAIN project.files : HasKeywordLine(i))
    => steps # <<>>

\* as the code has it: the file is among the five that the fallback scans
C30_TopFiveKeywordLineGivesAStep ==
  (WalkFoundNothing /\ \E i \in DOMAIN project.files :
                          InTopFive(i) /\ HasKeywordLine(i))
    => steps # <<>>

\* the walk found nothing, a matching file without content was selected
\* first, and the file with the keyword line selected after it gave the steps
C30_Witness ==
  /\ WalkFoundNothing /\ LogOf("select") # {}
  /\ steps # <<>>
  /\ \E i, j \in DOMAIN project.files :
       /\ InTopFive(i) /\ HasKeywordLine(i)
       /\ InTopFive(j) /\ project.files[j].content = None
       /\ Before(j, i)

====
